---- MODULE Spec2Model ----
(***************************************************************************)
(* A model of scrape_business_to_sqlite.py: discovery of the business      *)
(* links of the Moneycontrol homepage, extraction of the article fields    *)
(* from each linked page, and storage of each article in the SQLite table  *)
(* business_articles.                                                      *)
(*                                                                         *)
(* Text is a sequence of tokens: a word, or the token " " for whitespace.  *)
(* The empty sequence is the empty string.  Python's None, where a string  *)
(* is expected, is the one-token sequence None, a token no text holds.     *)
(***************************************************************************)
EXTENDS Integers, Sequences, FiniteSets, TLC

VARIABLES
    pc,           \* position of scrape_moneycontrol, or of a function applied alone
    run,          \* number of the current invocation of the script
    homepage,     \* what the homepage URL serves: a document, or NoSoup
    site,         \* what each article path serves: a document, or NoSoup
    homepage_soup,\* scrape_moneycontrol's homepage_soup
    links,        \* sorted(links), the sequence the loop iterates
    idx,          \* 1-based position of the loop in links
    soup,         \* scrape_moneycontrol's soup for the current link
    article,      \* the record parse_moneycontrol returned
    tableExists,  \* whether articles.db holds the table business_articles
    rows,         \* the rows of business_articles, in insertion order
    status,       \* per link of this run: the state the loop left it in
    outcome,      \* what the last save_article_to_db call printed
    inserted,     \* whether the last save_article_to_db call committed a row
    fetched,      \* the links requested in this run, in order
    waited,       \* milliseconds slept since the last article request
    faulted,      \* whether the backing medium has raised a fault in any run
    rowsAtStart   \* number of rows when the current run started

vars == << pc, run, homepage, site, homepage_soup, links, idx, soup, article,
           tableExists, rows, status, outcome, inserted, fetched, waited,
           faulted,
           rowsAtStart >>

-----------------------------------------------------------------------------
(* Bounds of the model.                                                    *)

MaxAnchors == 2     \* anchors on a homepage
MaxKids == 2        \* children of an element of an article page
MaxRuns == 2        \* invocations of the script

-----------------------------------------------------------------------------
(* Strings.                                                                *)

None == << "None" >>

SP == " "
NL == "\n\n"

\* The tokens str.strip() removes.
Whitespace == { SP, NL }

\* Python truthiness of an optional string.
Truthy(s) == s \notin { None, << >> }

\* The texts: every sequence of tokens.
Text == Seq(STRING)

LStrip[s \in Text] ==
    IF s # << >> /\ Head(s) \in Whitespace THEN LStrip[Tail(s)] ELSE s

RStrip[s \in Text] ==
    IF s # << >> /\ s[Len(s)] \in Whitespace
    THEN RStrip[SubSeq(s, 1, Len(s) - 1)]
    ELSE s

\* str.strip()
Strip(s) == RStrip[LStrip[s]]

\* sep.join(parts), parts a sequence of strings
Join[parts \in Seq(Text), sep \in Text] ==
    IF parts = << >> THEN << >>
    ELSE IF Len(parts) = 1 THEN parts[1]
    ELSE parts[1] \o sep \o Join[Tail(parts), sep]

\* The sequence of the string s when s is not empty, else the empty sequence.
NonEmpty[s \in Text] == IF s = << >> THEN << >> ELSE << s >>

\* The first element of seq that is in the set S, as a sequence of length <= 1.
FirstIn(seq, S) ==
    LET at == { i \in 1..Len(seq) : seq[i] \in S }
    IN  IF at = {} THEN << >>
        ELSE << seq[CHOOSE i \in at : \A j \in at : i <= j] >>

\* The elements of a sequence, as a set.
Range(seq) == { seq[i] : i \in 1..Len(seq) }

\* All sequences over S of length at most n.
SeqUpTo(S, n) == UNION { [1..k -> S] : k \in 0..n }

-----------------------------------------------------------------------------
(* URLs.  A URL is its urlparse components: scheme, netloc, path, query    *)
(* and fragment.  A path is a sequence of segments, absolute when it       *)
(* starts with "/": "/business/a" is abs with <<"business", "a">>, "/" is  *)
(* abs with <<"">>, "" is not abs and has no segment.                      *)

Url(scheme, netloc, path, query, frag) ==
    [scheme |-> scheme, netloc |-> netloc, path |-> path,
     query |-> query, frag |-> frag]

AbsPath(segs) == [abs |-> TRUE, segs |-> segs]
RelPath(segs) == [abs |-> FALSE, segs |-> segs]
EmptyPath == RelPath(<< >>)

HomeNetloc == "www.moneycontrol.com"

\* scrape_moneycontrol: home_url = "https://www.moneycontrol.com/"
home_url == Url("https", HomeNetloc, AbsPath(<< "" >>), "", "")

\* urllib.parse.uses_relative, as far as the schemes of the model go
uses_relative == { "", "http", "https", "ftp" }

\* urllib.parse.urljoin(base, url) for a url without "." and ".." segments
urljoin(base, url) ==
    IF url = Url("", "", EmptyPath, "", "") THEN base
    ELSE LET scheme == IF url.scheme = "" THEN base.scheme ELSE url.scheme
         IN  IF scheme # base.scheme \/ scheme \notin uses_relative THEN url
             ELSE IF url.netloc # ""
                  THEN Url(scheme, url.netloc, url.path, url.query, url.frag)
             ELSE IF url.path = EmptyPath
                  THEN Url(scheme, base.netloc, base.path,
                           IF url.query = "" THEN base.query ELSE url.query,
                           url.frag)
             ELSE IF url.path.abs
                  THEN Url(scheme, base.netloc, url.path, url.query, url.frag)
             ELSE Url(scheme, base.netloc,
                      AbsPath(SubSeq(base.path.segs, 1, Len(base.path.segs) - 1)
                              \o url.path.segs),
                      url.query, url.frag)

\* "/business/" in parsed.path
HasBusiness(path) ==
    \E i \in 1..(Len(path.segs) - 1) :
        path.segs[i] = "business" /\ (path.abs \/ i > 1)

\* abs_url.split("#")[0].split("?")[0]: the text before the first "#", and of
\* that the text before the first "?".  urlunparse writes the query after
\* the path and the fragment last, and neither scheme, netloc nor path
\* holds a "#" or a "?".
Cleaned(abs_url) == [abs_url EXCEPT !.query = "", !.frag = ""]

\* collect_business_links: the body of the loop for one anchor; the set of
\* links the anchor adds.  An anchor is its href, or NoHref.
NoHref == [nohref |-> TRUE]

\* A filter that skips no external domain.
AnySite(parsed, base_netloc) == TRUE

\* if parsed.netloc != base_netloc: continue
SameSite(parsed, base_netloc) == parsed.netloc = base_netloc

LinksOfAnchor(home, a) ==
    IF a = NoHref THEN {}
    ELSE LET abs_url == urljoin(home, a)
         IN  IF ~SameSite(abs_url, home.netloc) THEN {}
             ELSE IF HasBusiness(abs_url.path) THEN { Cleaned(abs_url) }
             ELSE {}

\* collect_business_links(home_url, homepage_soup); a homepage is the
\* sequence of its anchors.
collect_business_links(home, hp_soup) ==
    UNION { LinksOfAnchor(home, hp_soup.anchors[i]) :
                i \in 1..Len(hp_soup.anchors) }

\* Order of the characters that tell the strings of the model apart.
StrRank(s) ==
    CASE s = "" -> 0
      [] s = "a" -> 1
      [] s = "b" -> 2
      [] s = "business" -> 3
      [] s = "evil.com" -> 4
      [] s = "http" -> 5
      [] s = "https" -> 6
      [] s = "news" -> 7
      [] s = "www.moneycontrol.com" -> 8
      [] s = "www.moneycontrol.com:443" -> 9
      [] OTHER -> 10

RECURSIVE SegsLess(_, _)
SegsLess(x, y) ==
    IF x = << >> THEN y # << >>
    ELSE IF y = << >> THEN FALSE
    ELSE IF Head(x) # Head(y) THEN StrRank(Head(x)) < StrRank(Head(y))
    ELSE SegsLess(Tail(x), Tail(y))

\* u < v as Python compares the two URL strings
UrlLess(u, v) ==
    SegsLess(<< u.scheme, u.netloc >> \o u.path.segs,
             << v.scheme, v.netloc >> \o v.path.segs)

\* sorted(links)
RECURSIVE sorted(_)
sorted(S) ==
    IF S = {} THEN << >>
    ELSE LET m == CHOOSE x \in S : \A y \in S \ {x} : UrlLess(x, y)
         IN  << m >> \o sorted(S \ {m})

-----------------------------------------------------------------------------
(* Documents.  An article page is its three meta contents and the forest   *)
(* of its body elements.  An element has a tag, a class, an id, a rel and  *)
(* a datetime attribute, one text string of its own (the empty sequence    *)
(* when it has none) that precedes its children, and its children.         *)

El(tag, cls, text, kids) ==
    [tag |-> tag, cls |-> cls, id |-> "", rel |-> "", dt |-> None,
     text |-> text, kids |-> kids]

Meta(og_title, author, published) ==
    [og_title |-> og_title, author |-> author, published |-> published]

Doc(meta, body) == [meta |-> meta, body |-> body]

\* The elements of a forest in document order.
RECURSIVE Preorder(_)
Preorder(forest) ==
    IF forest = << >> THEN << >>
    ELSE << Head(forest) >> \o Preorder(Head(forest).kids)
             \o Preorder(Tail(forest))

\* Tag.find_all(tags, recursive=True): the descendants with one of the tags
find_all(node, tags) ==
    SelectSeq(Preorder(node.kids), LAMBDA n : n.tag \in tags)

\* The text strings of an element and its descendants, in document order.
RECURSIVE Strings(_)
RECURSIVE StringsOfAll(_)
Strings(node) ==
    (IF node.text = << >> THEN << >> ELSE << node.text >>)
        \o StringsOfAll(node.kids)
StringsOfAll(forest) ==
    IF forest = << >> THEN << >>
    ELSE Strings(Head(forest)) \o StringsOfAll(Tail(forest))

\* The strings stripped, the empty ones dropped.
StrippedStrings[strs \in Seq(Text)] ==
    IF strs = << >> THEN << >>
    ELSE NonEmpty[Strip(Head(strs))] \o StrippedStrings[Tail(strs)]

\* Tag.get_text(separator=sep, strip=strip)
get_text(node, sep, strip) ==
    IF strip THEN Join[StrippedStrings[Strings(node)], sep]
    ELSE Join[Strings(node), sep]

-----------------------------------------------------------------------------
(* parse_iso_datetime.  dateutil parses a text that is, apart from         *)
(* surrounding whitespace, one date; isoformat() writes the date parsed.   *)

DateTexts == { "2024-03-03", "3 Mar 2024" }

Parseable(text) == Len(Strip(text)) = 1 /\ Strip(text)[1] \in DateTexts

IsoFormat(text) == << "2024-03-03T00:00:00" >>

parse_iso_datetime(text) ==
    IF ~Truthy(text) THEN None
    ELSE IF Parseable(text) THEN IsoFormat(text)
    ELSE Strip(text)

-----------------------------------------------------------------------------
(* extract_text_from_elements.                                             *)

\* The loop: the non-empty texts of the elements, in order.
RECURSIVE Chunks(_)
Chunks(elements) ==
    IF elements = << >> THEN << >>
    ELSE NonEmpty[get_text(Head(elements), << SP >>, TRUE)]
             \o Chunks(Tail(elements))

extract_text_from_elements(elements) == Strip(Join[Chunks(elements), << NL >>])

-----------------------------------------------------------------------------
(* parse_moneycontrol.                                                     *)

\* soup.find(tag): the first element with the tag, as a sequence
find(body, tag) == FirstIn(Preorder(body), { n \in Range(Preorder(body)) : n.tag = tag })

\* Title: og:title, then the first h1.
ParseTitle(doc) ==
    LET og_title == doc.meta.og_title
        t1 == IF Truthy(og_title) THEN Strip(og_title) ELSE None
        h1 == find(doc.body, "h1")
    IN  IF Truthy(t1) THEN t1
        ELSE IF h1 # << >> THEN get_text(h1[1], << >>, TRUE)
        ELSE t1

AuthorClasses == { "author", "byline", "author-name", "article-author" }

\* soup.select_one(".author, .byline, .author-name, .article-author, a[rel='author']")
SelectAuthor(body) ==
    FirstIn(Preorder(body),
            { n \in Range(Preorder(body)) :
                n.cls \in AuthorClasses \/ (n.tag = "a" /\ n.rel = "author") })

\* re.compile(r"^By\s+", re.I) matches the string
MatchesBy(text) ==
    Len(text) >= 2 /\ text[1] \in { "By", "by", "BY" } /\ text[2] \in Whitespace

\* soup.find(string=...): the element whose own string is the first match
FindByText(body) ==
    FirstIn(Preorder(body), { n \in Range(Preorder(body)) : MatchesBy(n.text) })

\* An author extraction that falls through every empty result.
ParseAuthorFirstNonEmpty(doc) ==
    LET meta_author == doc.meta.author
        author_sel == SelectAuthor(doc.body)
        by_text == FindByText(doc.body)
        a1 == IF Truthy(meta_author) THEN Strip(meta_author) ELSE None
        a2 == IF Truthy(a1) \/ author_sel = << >> THEN a1
              ELSE get_text(author_sel[1], << SP >>, TRUE)
    IN  IF Truthy(a2) \/ by_text = << >> THEN a2
        ELSE get_text(by_text[1], << SP >>, TRUE)

\* Author: meta author, then the byline element, then the "By ..." text.
ParseAuthor(doc) ==
    LET meta_author == doc.meta.author
        author_sel == SelectAuthor(doc.body)
        by_text == FindByText(doc.body)
    IN  IF Truthy(meta_author) THEN Strip(meta_author)
        ELSE IF author_sel # << >> THEN get_text(author_sel[1], << SP >>, TRUE)
        ELSE IF by_text # << >> THEN get_text(by_text[1], << SP >>, TRUE)
        ELSE None

DateClasses == { "date", "time", "publishing-date", "article-date" }

\* soup.select_one(".date, .time, .publishing-date, .article-date")
SelectDate(body) ==
    FirstIn(Preorder(body), { n \in Range(Preorder(body)) : n.cls \in DateClasses })

\* Publication date: meta article:published_time, then the first time
\* element, then the first date element.
ParseDate(doc) ==
    LET meta_pub == doc.meta.published
        time_tag == find(doc.body, "time")
        date_el == SelectDate(doc.body)
    IN  IF Truthy(meta_pub) THEN parse_iso_datetime(meta_pub)
        ELSE IF time_tag # << >>
             THEN parse_iso_datetime(
                      IF Truthy(time_tag[1].dt) THEN time_tag[1].dt
                      ELSE get_text(time_tag[1], << >>, FALSE))
        ELSE IF date_el # << >>
             THEN parse_iso_datetime(get_text(date_el[1], << >>, FALSE))
        ELSE None

Sel(tag, cls, id) == [tag |-> tag, cls |-> cls, id |-> id]

content_selectors ==
    << Sel("div", "articleText", ""), Sel("div", "articleContent", ""),
       Sel("div", "article-desc", ""), Sel("div", "", "content"),
       Sel("div", "", "articleBody"), Sel("article", "", "") >>

Matches(n, sel) ==
    /\ n.tag = sel.tag
    /\ sel.cls # "" => n.cls = sel.cls
    /\ sel.id # "" => n.id = sel.id

\* soup.select_one(sel)
select_one(body, sel) ==
    FirstIn(Preorder(body), { n \in Range(Preorder(body)) : Matches(n, sel) })

\* node.find_all(["p", "div"], recursive=True)
BlockTags == { "p", "div" }

\* The for loop over content_selectors: loop[i, content] is the content the
\* loop ends with when it reaches selector i with the variable content;
\* a non-empty content has left the loop (break).
ContentLoop(body) ==
    LET loop[i \in 1..(Len(content_selectors) + 1), content \in Text] ==
            IF Truthy(content) \/ i > Len(content_selectors) THEN content
            ELSE LET node == select_one(body, content_selectors[i])
                 IN  IF node = << >> THEN loop[i + 1, content]
                     ELSE loop[i + 1,
                               extract_text_from_elements(find_all(node[1], BlockTags))]
    IN  loop[1, None]

\* Content: the selectors, then the paragraphs of the first article
\* element, then the paragraphs of the document.
ParseContent(doc) ==
    LET article_tag == find(doc.body, "article")
        \* if not content: article_tag = soup.find("article") ...
        in_article[content \in Text] ==
            IF ~Truthy(content) /\ article_tag # << >>
            THEN extract_text_from_elements(find_all(article_tag[1], { "p" }))
            ELSE content
        \* if not content: all_p = soup.find_all("p") ...
        in_document[content \in Text] ==
            IF ~Truthy(content)
            THEN extract_text_from_elements(
                     SelectSeq(Preorder(doc.body), LAMBDA n : n.tag = "p"))
            ELSE content
        \* content or ""
        or_empty[content \in Text] == IF Truthy(content) THEN content ELSE << >>
    IN  or_empty[in_document[in_article[ContentLoop(doc.body)]]]

parse_moneycontrol(url, doc) ==
    [article_url |-> url,
     title |-> ParseTitle(doc),
     author |-> ParseAuthor(doc),
     publication_date |-> ParseDate(doc),
     content |-> ParseContent(doc)]

-----------------------------------------------------------------------------
(* The database articles.db: whether the table business_articles exists,   *)
(* and its rows.                                                           *)

Db(exists, rws) == [exists |-> exists, rows |-> rws]

\* A create_db that drops the table and creates it anew.
create_db_fresh(db) == Db(TRUE, << >>)

\* create_db: CREATE TABLE IF NOT EXISTS
create_db(db) == Db(TRUE, db.rows)

\* An article_url column declared without UNIQUE.
NoUniqueConstraint(rws, url) == FALSE

\* article_url TEXT UNIQUE: the insertion of url breaks the constraint
UniqueViolated(rws, url) == \E i \in 1..Len(rws) : rws[i].article_url = url

\* INSERT INTO business_articles (...) VALUES (...), id AUTOINCREMENT
InsertRow(rws, art) ==
    Append(rws, [id |-> Len(rws) + 1,
                 title |-> art.title,
                 author |-> art.author,
                 publication_date |-> art.publication_date,
                 article_url |-> art.article_url,
                 content |-> art.content])

\* What the backing medium may do during one call: nothing, fail in
\* sqlite3.connect (outside the try), or fail in cur.execute.
Faults == { "none", "connect", "execute" }

\* A save_article_to_db whose statement is INSERT OR REPLACE.
save_article_or_replace(db, art, fault) ==
    IF fault = "connect" THEN [db |-> db, outcome |-> "raised"]
    ELSE IF fault = "execute" \/ ~db.exists THEN [db |-> db, outcome |-> "error"]
    ELSE LET kept == SelectSeq(db.rows, LAMBDA r : r.article_url # art.article_url)
             committed == Db(db.exists, InsertRow(kept, art))
         IN  IF art.title = None THEN [db |-> committed, outcome |-> "error"]
             ELSE [db |-> committed, outcome |-> "saved"]

\* save_article_to_db(article): the database after the call and what the
\* call reported: "saved" ([DB] Saved), "duplicate" ([DB] Skipped),
\* "error" ([DB] Error saving article), or "raised" (the exception of
\* sqlite3.connect, which leaves the function).
save_article_to_db(db, art, fault) ==
    IF fault = "connect" THEN [db |-> db, outcome |-> "raised"]
    ELSE IF fault = "execute" \/ ~db.exists THEN [db |-> db, outcome |-> "error"]
    ELSE IF UniqueViolated(db.rows, art.article_url)
         THEN [db |-> db, outcome |-> "duplicate"]
    ELSE LET committed == Db(db.exists, InsertRow(db.rows, art))
         IN  \* print(... article.get('title')[:60]) after conn.commit()
             IF art.title = None THEN [db |-> committed, outcome |-> "error"]
             ELSE [db |-> committed, outcome |-> "saved"]

-----------------------------------------------------------------------------
(* The web the script reads: the homepages and article pages of the model. *)

NoSoup == [none |-> TRUE]
NoArticle == [none |-> TRUE]

EvilNetloc == "evil.com"
HomePortNetloc == "www.moneycontrol.com:443"

PathA == AbsPath(<< "business", "a" >>)
PathB == AbsPath(<< "business", "b" >>)

Homepage(anchors) == [anchors |-> anchors]

\* Anchors of the homepages the whole script is run on: a relative link, an
\* absolute one with a query and a fragment, and the first page over http.
PipelineAnchors ==
    { Url("", "", PathA, "", ""),
      Url("https", HomeNetloc, PathB, "q", "f"),
      Url("http", HomeNetloc, PathA, "", "") }

PipelineHomes ==
    { NoSoup } \cup { Homepage(a) : a \in SeqUpTo(PipelineAnchors, MaxAnchors) }

P(text) == El("p", "", text, << >>)

\* Article pages the whole script is run on: an article with title and
\* content, a page with content and no title, a page with nothing, a page
\* whose only title is blank; or no page.
PipelinePages ==
    { NoSoup,
      Doc(Meta(<< "T1" >>, << "Ann" >>, << "3 Mar 2024" >>),
          << El("div", "articleText", << >>, << P(<< "a" >>) >>) >>),
      Doc(Meta(None, None, None), << P(<< "a" >>) >>),
      Doc(Meta(None, None, None), << >>),
      Doc(Meta(<< SP >>, None, None), << >>) }

ArticlePaths == { PathA, PathB }

\* Hrefs a homepage is searched with when collect_business_links is applied
\* alone.
HrefBases ==
    { << "", "" >>, << "", HomeNetloc >>, << "", EvilNetloc >>,
      << "https", HomeNetloc >>, << "https", EvilNetloc >>,
      << "http", HomeNetloc >>, << "https", HomePortNetloc >> }

HrefPaths ==
    { PathA, AbsPath(<< "news", "a" >>), AbsPath(<< "business" >>),
      AbsPath(<< "news", "business", "b" >>) }

Hrefs ==
    { Url(b[1], b[2], p, "", "") : b \in HrefBases, p \in HrefPaths }
    \cup { Url("", "", RelPath(<< "business", "b" >>), "", ""),
           Url("", "", RelPath(<< "x", "business", "b" >>), "", ""),
           Url("", "", EmptyPath, "", ""),
           Url("", "", EmptyPath, "q", ""),
           Url("", "", EmptyPath, "", "f"),
           Url("mailto", "", RelPath(<< "x@y", "business", "" >>), "", ""),
           Url("", "", PathA, "q", ""),
           Url("", "", PathA, "", "f"),
           Url("", "", PathB, "q", "f"),
           Url("http", HomeNetloc, PathB, "q", "f") }

Anchors == Hrefs \cup { NoHref }

\* Documents parse_moneycontrol is applied to alone: one family per field.
Span(cls, text) == El("span", cls, text, << >>)

TitleDocs ==
    { Doc(Meta(og, None, None), h \o c) :
        og \in { None, << >>, << SP >>, << "T1" >>, << SP, "T1", SP >> },
        h \in { << >>,
                << El("h1", "", << >>, << >>) >>,
                << El("h1", "", << SP, "Head", SP >>, << >>) >>,
                << El("h1", "", << "Head" >>, << Span("", << "line" >>) >>),
                   El("h1", "", << "Second" >>, << >>) >> },
        c \in { << >>, << P(<< "a" >>) >> } }

AuthorDocs ==
    { Doc(Meta(None, m, None), b \o t) :
        m \in { None, << >>, << SP >>, << "Ann" >>, << SP, "Ann" >> },
        b \in { << >>,
                << Span("author", << >>) >>,
                << Span("author", << SP >>) >>,
                << Span("byline", << "Bea" >>) >>,
                << [El("a", "", << "Cy" >>, << >>) EXCEPT !.rel = "author"] >>,
                << El("div", "article-author", << >>,
                      << Span("", << "Dee" >>), Span("", << "Poe" >>) >>) >> },
        t \in { << >>,
                << P(<< "By", SP, "Bob" >>) >>,
                << P(<< SP, "By", SP, "Bob" >>) >>,
                << El("div", "", << >>,
                      << Span("", << "by", SP, "Bob" >>), Span("", << "Jr" >>) >>) >> } }

Time(dt, text) == [El("time", "", text, << >>) EXCEPT !.dt = dt]

DateDocs ==
    { Doc(Meta(None, None, m), t \o d) :
        m \in { None, << >>, << SP >>, << "2024-03-03" >>,
                << SP, "3 Mar 2024", SP >>, << "last", SP, "week", SP >> },
        t \in { << >>,
                << Time(<< "2024-03-03" >>, << "today" >>) >>,
                << Time(None, << SP, "3 Mar 2024" >>) >>,
                << Time(<< >>, << "today", SP >>) >>,
                << Time(None, << >>) >> },
        d \in { << >>,
                << Span("date", << "2024-03-03" >>) >>,
                << Span("article-date", << SP, "last", SP, "week" >>) >> } }

\* Content containers: up to MaxKids blocks, each a paragraph or a div of
\* up to MaxKids paragraphs.
Leaves == { P(<< >>), P(<< "a" >>), P(<< "b" >>) }

InnerDivs ==
    { El("div", "", << >>, k) :
        k \in SeqUpTo({ P(<< "a" >>), P(<< "b" >>) }, MaxKids) }

Blocks == Leaves \cup InnerDivs

Containers ==
    { El(c[1], c[2], << >>, k) :
        c \in { << "div", "articleText" >>, << "article", "" >> },
        k \in SeqUpTo(Blocks, MaxKids) }

\* Pages with several candidate containers.
SmallParts ==
    { El("div", "articleText", << >>, << >>),
      El("div", "articleContent", << >>, << P(<< "a" >>) >>),
      [El("div", "", << >>, << P(<< "b" >>) >>) EXCEPT !.id = "content"],
      El("article", "", << "lead" >>, << P(<< >>) >>),
      El("article", "", << >>, << El("section", "", << >>, << P(<< "b" >>) >>) >>),
      P(<< "a" >>) }

ContentDocs ==
    { Doc(Meta(None, None, None), << c >>) : c \in Containers }
    \cup { Doc(Meta(None, None, None), b) : b \in SeqUpTo(SmallParts, 2) }

ParseDocs == TitleDocs \cup AuthorDocs \cup DateDocs \cup ContentDocs

-----------------------------------------------------------------------------
(* scrape_moneycontrol, one action per step of the function.               *)

\* time.sleep(REQUEST_SLEEP), in milliseconds
REQUEST_SLEEP == 800

\* get_soup(url): the document the URL serves, or NoSoup when the request
\* or raise_for_status raises (the except branch returns None).
get_soup(url) ==
    IF url = home_url THEN homepage
    ELSE IF url.path \in DOMAIN site THEN site[url.path]
    ELSE NoSoup

\* A validation that tests the title for None only.
NotAnArticleNullTitle(art) == art.title = None /\ ~Truthy(art.content)

\* if not article.get("title") and not article.get("content")
NotAnArticle(art) == ~Truthy(art.title) /\ ~Truthy(art.content)

\* A loop that a storage error leaves.
AfterSaveAbort(result) ==
    IF result \in { "error", "raised" } THEN "exit" ELSE "sleep"

\* Where the loop goes after the try block that called save_article_to_db:
\* both except clauses fall through to time.sleep.
AfterSave(result) == "sleep"

\* Where the loop goes after a failed get_soup(link): continue.
AfterFetchFailure == "fetch"

\* The state the loop leaves a link in after save_article_to_db.
StatusOf(result) ==
    CASE result = "saved" -> "Stored"
      [] result = "duplicate" -> "Duplicate"
      [] OTHER -> "StoreError"

Terminal == { "FetchFailed", "Rejected", "Stored", "Duplicate", "StoreError" }

Init ==
    /\ pc = "start"
    /\ run = 1
    /\ homepage \in PipelineHomes
    /\ site \in [ArticlePaths -> PipelinePages]
    /\ homepage_soup = NoSoup
    /\ links = << >>
    /\ idx = 1
    /\ soup = NoSoup
    /\ article = NoArticle
    /\ tableExists = FALSE
    /\ rows = << >>
    /\ status = << >>
    /\ outcome = "none"
    /\ inserted = FALSE
    /\ fetched = << >>
    /\ waited = 0
    /\ faulted = FALSE
    /\ rowsAtStart = 0

\* homepage_soup = get_soup(home_url); if not homepage_soup: return
FetchHomepage ==
    /\ pc = "start"
    /\ homepage_soup' = get_soup(home_url)
    /\ pc' = IF homepage_soup' = NoSoup THEN "exit" ELSE "collect"
    /\ UNCHANGED << run, homepage, site, links, idx, soup, article, tableExists,
                    rows, status, outcome, inserted, fetched, waited, faulted,
                    rowsAtStart >>

\* links = collect_business_links(...); if not links: return; the loop
\* iterates sorted(links).
CollectLinks ==
    /\ pc = "collect"
    /\ links' = sorted(collect_business_links(home_url, homepage_soup))
    /\ status' = [i \in 1..Len(links') |-> "Pending"]
    /\ pc' = IF links' = << >> THEN "exit" ELSE "create_db"
    /\ UNCHANGED << run, homepage, site, homepage_soup, idx, soup, article,
                    tableExists, rows, outcome, inserted, fetched, waited,
                    faulted, rowsAtStart >>

\* create_db()
CreateDb ==
    /\ pc = "create_db"
    /\ LET db == create_db(Db(tableExists, rows))
       IN  tableExists' = db.exists /\ rows' = db.rows
    /\ idx' = 1
    /\ pc' = "fetch"
    /\ UNCHANGED << run, homepage, site, homepage_soup, links, soup, article,
                    status, outcome, inserted, fetched, waited, faulted,
                    rowsAtStart >>

\* soup = get_soup(link); if not soup: continue
FetchArticle ==
    /\ pc = "fetch"
    /\ idx <= Len(links)
    /\ soup' = get_soup(links[idx])
    /\ fetched' = Append(fetched, links[idx])
    /\ waited' = 0
    /\ IF soup' = NoSoup
       THEN /\ status' = [status EXCEPT ![idx] = "FetchFailed"]
            /\ idx' = idx + 1
            /\ pc' = AfterFetchFailure
       ELSE /\ pc' = "parse"
            /\ UNCHANGED << status, idx >>
    /\ UNCHANGED << run, homepage, site, homepage_soup, links, article,
                    tableExists, rows, outcome, inserted, faulted, rowsAtStart >>

\* article = parse_moneycontrol(link, soup); the validation; continue
ParseArticle ==
    /\ pc = "parse"
    /\ article' = parse_moneycontrol(links[idx], soup)
    /\ IF NotAnArticle(article')
       THEN /\ status' = [status EXCEPT ![idx] = "Rejected"]
            /\ idx' = idx + 1
            /\ pc' = "fetch"
       ELSE /\ pc' = "save"
            /\ UNCHANGED << status, idx >>
    /\ UNCHANGED << run, homepage, site, homepage_soup, links, soup,
                    tableExists, rows, outcome, inserted, fetched, waited,
                    faulted, rowsAtStart >>

\* save_article_to_db(article), inside the try of the loop
SaveArticle ==
    /\ pc = "save"
    /\ \E fault \in Faults :
         LET r == save_article_to_db(Db(tableExists, rows), article, fault)
         IN  /\ tableExists' = r.db.exists
             /\ rows' = r.db.rows
             /\ outcome' = r.outcome
             /\ inserted' = (Len(r.db.rows) > Len(rows))
             /\ status' = [status EXCEPT ![idx] = StatusOf(r.outcome)]
             /\ faulted' = (faulted \/ fault # "none")
             /\ pc' = AfterSave(r.outcome)
    /\ UNCHANGED << run, homepage, site, homepage_soup, links, idx, soup,
                    article, fetched, waited, rowsAtStart >>

\* time.sleep(REQUEST_SLEEP), the last statement of the loop body
Sleep ==
    /\ pc = "sleep"
    /\ waited' = waited + REQUEST_SLEEP
    /\ idx' = idx + 1
    /\ pc' = "fetch"
    /\ UNCHANGED << run, homepage, site, homepage_soup, links, soup, article,
                    tableExists, rows, status, outcome, inserted, fetched,
                    faulted, rowsAtStart >>

\* The loop is exhausted: scrape_moneycontrol returns.
FinishLoop ==
    /\ pc = "fetch"
    /\ idx > Len(links)
    /\ pc' = "exit"
    /\ UNCHANGED << run, homepage, site, homepage_soup, links, idx, soup,
                    article, tableExists, rows, status, outcome, inserted,
                    fetched, waited, faulted, rowsAtStart >>

\* The script is invoked again, on the same pages and the same articles.db.
RunAgain ==
    /\ pc = "exit"
    /\ run < MaxRuns
    /\ run' = run + 1
    /\ pc' = "start"
    /\ homepage_soup' = NoSoup
    /\ links' = << >>
    /\ idx' = 1
    /\ soup' = NoSoup
    /\ article' = NoArticle
    /\ status' = << >>
    /\ outcome' = "none"
    /\ inserted' = FALSE
    /\ fetched' = << >>
    /\ waited' = 0
    /\ rowsAtStart' = Len(rows)
    /\ UNCHANGED << homepage, site, tableExists, rows, faulted >>

Next ==
    \/ FetchHomepage
    \/ CollectLinks
    \/ CreateDb
    \/ FetchArticle
    \/ ParseArticle
    \/ SaveArticle
    \/ Sleep
    \/ FinishLoop
    \/ RunAgain

Spec == Init /\ [][Next]_vars

\* Every call the script makes returns (requests has a timeout, sleep is
\* finite), so a run that can take a step takes it.
FairSpec == Spec /\ WF_vars(Next)

-----------------------------------------------------------------------------
(* collect_business_links applied alone, to every homepage of up to        *)
(* MaxAnchors anchors.                                                     *)

InitLinks ==
    /\ pc = "collect"
    /\ run = 1
    /\ homepage \in { Homepage(a) : a \in SeqUpTo(Anchors, MaxAnchors) }
    /\ site = [p \in ArticlePaths |-> NoSoup]
    /\ homepage_soup = homepage
    /\ links = << >>
    /\ idx = 1
    /\ soup = NoSoup
    /\ article = NoArticle
    /\ tableExists = FALSE
    /\ rows = << >>
    /\ status = << >>
    /\ outcome = "none"
    /\ inserted = FALSE
    /\ fetched = << >>
    /\ waited = 0
    /\ faulted = FALSE
    /\ rowsAtStart = 0

SpecLinks == InitLinks /\ [][CollectLinks]_vars

(* parse_moneycontrol applied alone, to every document of ParseDocs.       *)

InitParse ==
    /\ pc = "parse"
    /\ run = 1
    /\ homepage = Homepage(<< Url("", "", PathA, "", "") >>)
    /\ site \in { [p \in ArticlePaths |-> d] : d \in ParseDocs }
    /\ homepage_soup = homepage
    /\ links = << Url("https", HomeNetloc, PathA, "", "") >>
    /\ idx = 1
    /\ soup = site[PathA]
    /\ article = NoArticle
    /\ tableExists = TRUE
    /\ rows = << >>
    /\ status = << "Pending" >>
    /\ outcome = "none"
    /\ inserted = FALSE
    /\ fetched = links
    /\ waited = 0
    /\ faulted = FALSE
    /\ rowsAtStart = 0

SpecParse == InitParse /\ [][ParseArticle]_vars

-----------------------------------------------------------------------------
(* Properties.                                                             *)

UrlStored(url) == \E i \in 1..Len(rows) : rows[i].article_url = url

EmptyText(t) == t = None \/ t = << >>

\* The links of this run for which save_article_to_db was called.
SaveAttempts == { i \in DOMAIN status : status[i] \in { "Stored", "Duplicate", "StoreError" } }

C2_UniqueUrls ==
    \A i, j \in 1..Len(rows) :
        i # j => rows[i].article_url # rows[j].article_url

\* Two rows are stored and a later run has tried to store both again.
C2_Witness ==
    /\ run >= 2 /\ pc = "exit" /\ Len(rows) >= 2
    /\ \A i \in DOMAIN status : status[i] \in { "Duplicate", "StoreError" }
    /\ Len(status) = 2

\* The host of a netloc: the netloc without its port.
Host(netloc) == IF netloc = HomePortNetloc THEN HomeNetloc ELSE netloc

\* The path holds the section marker "/business/".
HasMarker(path) ==
    \E i \in 1..Len(path.segs) :
        path.segs[i] = "business" /\ i < Len(path.segs) /\ (path.abs \/ i > 1)

\* C3, as stated: every link collect_business_links returns has the origin
\* (scheme and host) of home_url and a path with the section marker.
C3_SameOrigin ==
    pc # "collect" =>
        \A i \in 1..Len(links) :
            /\ links[i].scheme = home_url.scheme
            /\ Host(links[i].netloc) = Host(home_url.netloc)
            /\ HasMarker(links[i].path)

\* C3, amended: every link collect_business_links returns has the netloc
\* (host and port) of home_url and a path with the section marker; its
\* scheme may differ from that of home_url.
C3_SameNetloc ==
    pc # "collect" =>
        \A i \in 1..Len(links) :
            /\ links[i].netloc = home_url.netloc
            /\ HasMarker(links[i].path)

\* A homepage with an absolute http href of the same host has been
\* searched, beside an anchor of another site.
C3_Witness ==
    /\ pc # "collect"
    /\ \E i \in 1..Len(links) : links[i].scheme = "http"
    /\ \E k \in 1..Len(homepage.anchors) :
           homepage.anchors[k] # NoHref /\ homepage.anchors[k].netloc = EvilNetloc

\* C4: a fetch failure or a storage error never aborts the batch: a run
\* that has returned has requested each discovered link exactly once and
\* left each in a terminal state, and a run in the loop returns.
C4_BatchNeverAborts ==
    /\ [](pc = "exit" =>
            /\ fetched = links
            /\ \A i \in DOMAIN status : status[i] \in Terminal)
    /\ [](\A i \in DOMAIN status :
            (i < idx => status[i] \in Terminal) /\ (i > idx => status[i] = "Pending"))
    /\ (pc \in { "create_db", "fetch", "parse", "save", "sleep" } ~> pc = "exit")

\* A run has returned whose first link failed to fetch and whose second
\* link met a storage error.
C4_Witness ==
    /\ pc = "exit" /\ Len(links) = 2
    /\ status[1] = "FetchFailed" /\ status[2] = "StoreError" /\ faulted

\* C5: when the loop requests an article after an earlier request of the
\* run, REQUEST_SLEEP has been slept since that earlier request.
C5_DelayBetweenFetches ==
    (pc = "fetch" /\ idx <= Len(links) /\ fetched # << >>) =>
        waited >= REQUEST_SLEEP

\* C6: a link whose page is fetched and parses to a record with an empty or
\* null title and an empty content has no row in the store, and
\* save_article_to_db is never called for it.
C6_RejectedNeverStored ==
    \A i \in 1..Len(links) :
        LET page == get_soup(links[i])
            record == IF page = NoSoup THEN NoArticle
                      ELSE parse_moneycontrol(links[i], page)
        IN  (page # NoSoup /\ EmptyText(record.title) /\ EmptyText(record.content))
                => /\ ~UrlStored(links[i])
                   /\ status[i] \in { "Pending", "Rejected" }

\* The loop has rejected a page whose title is the empty string and a page
\* whose title is null.
C6_Witness ==
    /\ pc = "exit" /\ Len(links) = 2
    /\ status[1] = "Rejected" /\ status[2] = "Rejected"
    /\ get_soup(links[1]) # get_soup(links[2])

\* C7: a call of save_article_to_db with a record whose article_url is in
\* the store leaves every row as it was and adds none.
C7_DuplicateLeavesRows ==
    [][(pc = "save" /\ UrlStored(article.article_url)) => rows' = rows]_vars

\* save_article_to_db has skipped a duplicate.
C7_Witness ==
    /\ pc = "sleep" /\ outcome = "duplicate"
    /\ UrlStored(article.article_url) /\ Len(rows) = rowsAtStart

\* The texts the three author strategies yield on the document parsed: the
\* meta author content trimmed, the text of the first byline element, and
\* the text of the element of the first "By ..." string; empty when the
\* strategy finds nothing.
MetaAuthorText ==
    IF soup.meta.author = None THEN << >> ELSE Strip(soup.meta.author)

BylineText ==
    IF SelectAuthor(soup.body) = << >> THEN << >>
    ELSE get_text(SelectAuthor(soup.body)[1], << SP >>, TRUE)

ByStringText ==
    IF FindByText(soup.body) = << >> THEN << >>
    ELSE get_text(FindByText(soup.body)[1], << SP >>, TRUE)

\* C8, as stated: the author is the first non-empty result of the three
\* strategies in order; an earlier strategy that yields empty text gives
\* way to a later one that yields text.
C8_FirstNonEmpty ==
    (pc # "parse" /\ soup # NoSoup) =>
        /\ MetaAuthorText # << >> => article.author = MetaAuthorText
        /\ (MetaAuthorText = << >> /\ BylineText # << >>)
               => article.author = BylineText
        /\ (MetaAuthorText = << >> /\ BylineText = << >> /\ ByStringText # << >>)
               => article.author = ByStringText

\* C8, amended: the author is the result of the first strategy that
\* matches, empty or not: the meta author when its content attribute is
\* not empty, else the first byline element when there is one, else the
\* first "By ..." string when there is one, else null.
C8_FirstMatch ==
    (pc # "parse" /\ soup # NoSoup) =>
        /\ Truthy(soup.meta.author) => article.author = MetaAuthorText
        /\ (~Truthy(soup.meta.author) /\ SelectAuthor(soup.body) # << >>)
               => article.author = BylineText
        /\ (~Truthy(soup.meta.author) /\ SelectAuthor(soup.body) = << >>
               /\ FindByText(soup.body) # << >>)
               => article.author = ByStringText
        /\ (~Truthy(soup.meta.author) /\ SelectAuthor(soup.body) = << >>
               /\ FindByText(soup.body) = << >>)
               => article.author = None

\* A page with an empty byline element and a "By ..." string has been
\* parsed, and the author is the empty text of the byline.
C8_Witness ==
    /\ pc # "parse" /\ soup # NoSoup
    /\ ~Truthy(soup.meta.author)
    /\ SelectAuthor(soup.body) # << >> /\ BylineText = << >>
    /\ ByStringText # << >>
    /\ article.author = << >>

\* The chunks of a content: the texts between the blank-line separators.
SplitChunks[content \in Text] ==
    IF content = << >> THEN << >>
    ELSE LET at == { i \in 1..Len(content) : content[i] = NL }
         IN  IF at = {} THEN << content >>
             ELSE LET k == CHOOSE i \in at : \A j \in at : i <= j
                  IN  << SubSeq(content, 1, k - 1) >>
                          \o SplitChunks[SubSeq(content, k + 1, Len(content))]

\* C9: when a content selector yields the content, no chunk of text occurs
\* twice in it.
C9_DistinctChunks ==
    (pc # "parse" /\ soup # NoSoup /\ Truthy(ContentLoop(soup.body))) =>
        LET chunks == SplitChunks[article.content]
        IN  \A i, j \in 1..Len(chunks) : i # j => chunks[i] # chunks[j]

\* C10: save_article_to_db reports "saved" exactly when it persisted a row,
\* and persisted none when it reports a storage error.
C10_OutcomeAgreesWithStore ==
    pc = "sleep" =>
        /\ (outcome = "saved") <=> inserted
        /\ outcome \in { "error", "raised" } => ~inserted

====
